---- MODULE Spec2Model ----
(***************************************************************************)
(* Model of streamlit_app.py, the GPAI assessment questionnaire.           *)
(*                                                                         *)
(* The program is a Streamlit script: the whole file is executed from top  *)
(* to bottom once when the session opens and once more after every change  *)
(* of a widget by the user.  The state that survives between two           *)
(* executions is the value of every widget; everything else (the module-   *)
(* level names prelim_score, baseline_score, ...) is rebuilt by each       *)
(* execution.  One execution is modelled by the operator Script; the       *)
(* variable run holds the module-level names left behind by the last       *)
(* execution, the widgets it rendered and the way it ended.                *)
(***************************************************************************)
EXTENDS Integers, Sequences, FiniteSets, TLC

\* Number of distinct texts a free-text widget can hold, the empty text
\* included.  The script stores texts and never inspects them.
NumTexts == 1

VARIABLES
    widgets,    \* widget key -> index (from 1) of the selected option
    run         \* module-level names, rendered widgets and outcome of the last execution

vars == <<widgets, run>>

-----------------------------------------------------------------------------
(* Option lists of the widgets.  st.radio returns the selected element of  *)
(* its option list and selects the first element until the user picks      *)
(* another one.                                                            *)

provider_type_options ==
    << "Large commercial provider", "SME or startup",
       "Academic or non-commercial research entity", "Public sector / other" >>

specialized_options ==
    << "Yes (Specialized/Narrow)", "No (Potentially General-Purpose)" >>

developed_internally_options == << "Internally Developed", "Third Party" >>

\* Keys of substantial_mod_questions in insertion order; every question has
\* the option list [yes_label, no_label] = ["Yes", "No"].
substantial_mod_keys ==
    << "param_change", "purpose_change", "data_change", "integration_change" >>

substantial_mod_options == << "Yes", "No" >>

\* Keys of preliminary_questions in insertion order.
preliminary_keys ==
    << "param_scale", "training_scope", "broad_ability", "generative_cap" >>

\* The source writes the middle option with an en dash; it is written with
\* an ASCII hyphen here.
param_scale_options == << "< 1B", "1B-10B", "> 10B" >>

no_partly_yes_options == << "No", "Partly", "Yes" >>

preliminary_questions(key) ==
    IF key = "param_scale" THEN param_scale_options ELSE no_partly_yes_options

\* Keys of baseline_obligations in insertion order.
baseline_keys == << "tech_doc", "instructions", "copyright", "data_summary" >>

\* The labels of the baseline options are processed character by character
\* by the program, so they are sequences of one-character strings.
tech_doc_options ==
    << <<"N","o","t"," ","i","n"," ","p","l","a","c","e"," ","(","0",")">>,
       <<"P","a","r","t","i","a","l","l","y"," ","i","n"," ","p","l","a","c","e"," ","(","1",")">>,
       <<"F","u","l","l","y"," ","i","n"," ","p","l","a","c","e"," ","(","2",")">> >>

instructions_options ==
    << <<"0"," ","-"," ","N","o","n","e">>,
       <<"1"," ","-"," ","S","o","m","e"," ","p","a","r","t","i","a","l"," ","i","n","s","t","r","u","c","t","i","o","n","s">>,
       <<"2"," ","-"," ","C","o","m","p","r","e","h","e","n","s","i","v","e"," ","g","u","i","d","e","l","i","n","e","s">> >>

copyright_options ==
    << <<"0"," ","-"," ","N","o","n","e">>,
       <<"1"," ","-"," ","P","a","r","t","i","a","l"," ","p","o","l","i","c","y">>,
       <<"2"," ","-"," ","F","u","l","l","y"," ","d","o","c","u","m","e","n","t","e","d"," ","p","o","l","i","c","y">> >>

data_summary_options ==
    << <<"0"," ","-"," ","N","o","t"," ","p","u","b","l","i","s","h","e","d">>,
       <<"1"," ","-"," ","P","a","r","t","i","a","l","l","y"," ","a","v","a","i","l","a","b","l","e">>,
       <<"2"," ","-"," ","C","o","m","p","r","e","h","e","n","s","i","v","e"," ","s","u","m","m","a","r","y">> >>

baseline_obligations(key) ==
    CASE key = "tech_doc" -> tech_doc_options
      [] key = "instructions" -> instructions_options
      [] key = "copyright" -> copyright_options
      [] key = "data_summary" -> data_summary_options

\* Keys of systemic_questions in insertion order; every question has the
\* option list ["No", "Yes"].
systemic_keys ==
    << "flop_threshold", "sota_advancement", "mass_deployment", "harmful_scaffolding" >>

systemic_options == << "No", "Yes" >>

final_risk_decision_options == << "Yes - High Impact/Systemic", "No - Not Systemic" >>

\* Free texts are told apart only by identity: text 0 is the empty text, the
\* initial content of st.text_area and st.text_input.
Texts == [i \in 1..NumTexts |-> i - 1]

\* st.button returns False except in the execution its click started.
button_options == << FALSE, TRUE >>

\* Widget keys: the key= argument where the source gives one (f"mod_{key}",
\* f"prelim_{key}", f"obligation_{key}", f"sys_{key}"), else the name the
\* widget's value is assigned to.
RangeOf(s) == {s[i] : i \in DOMAIN s}

ModKeyOf == [key \in RangeOf(substantial_mod_keys) |-> "mod_" \o key]
PrelimKeyOf == [key \in RangeOf(preliminary_keys) |-> "prelim_" \o key]
ObligationKeyOf == [key \in RangeOf(baseline_keys) |-> "obligation_" \o key]
SysKeyOf == [key \in RangeOf(systemic_keys) |-> "sys_" \o key]

ModKey(key) == ModKeyOf[key]
PrelimKey(key) == PrelimKeyOf[key]
ObligationKey(key) == ObligationKeyOf[key]
SysKey(key) == SysKeyOf[key]

ModWidgets == {ModKey(k) : k \in RangeOf(substantial_mod_keys)}
PrelimWidgets == {PrelimKey(k) : k \in RangeOf(preliminary_keys)}
ObligationWidgets == {ObligationKey(k) : k \in RangeOf(baseline_keys)}
SysWidgets == {SysKey(k) : k \in RangeOf(systemic_keys)}
TextWidgets ==
    {"provider_context_justification", "user_remediation", "model_name", "provider_name"}

WidgetKeys ==
    {"provider_type", "specialized_radio", "developed_internally",
     "borderline_sysrisk", "generate_button"}
    \cup TextWidgets \cup ModWidgets \cup PrelimWidgets \cup ObligationWidgets
    \cup SysWidgets

Options(w) ==
    CASE w = "provider_type" -> provider_type_options
      [] w = "specialized_radio" -> specialized_options
      [] w = "developed_internally" -> developed_internally_options
      [] w = "borderline_sysrisk" -> final_risk_decision_options
      [] w = "generate_button" -> button_options
      [] w \in TextWidgets -> Texts
      [] w \in ModWidgets -> substantial_mod_options
      [] w \in PrelimWidgets ->
            preliminary_questions(
                CHOOSE k \in RangeOf(preliminary_keys) : PrelimKey(k) = w)
      [] w \in ObligationWidgets ->
            baseline_obligations(
                CHOOSE k \in RangeOf(baseline_keys) : ObligationKey(k) = w)
      [] w \in SysWidgets -> systemic_options

\* The option lists are fixed when the script starts: Options as a table.
OptionsOf == [w \in WidgetKeys |-> Options(w)]

\* Value a widget call returns under the widget state ws.
Value(ws, w) == OptionsOf[w][ws[w]]

-----------------------------------------------------------------------------
(* The string operations of line 225:                                      *)
(*     int(user_choice.split("(")[-1].split(")")[0])                       *)

\* str.split(sep) for a one-character separator: the pieces between the
\* occurrences of sep, one more piece than there are occurrences.
RECURSIVE SplitFrom(_, _, _, _)
SplitFrom(s, sep, i, piece) ==
    IF i > Len(s) THEN << piece >>
    ELSE IF s[i] = sep THEN << piece >> \o SplitFrom(s, sep, i + 1, << >>)
    ELSE SplitFrom(s, sep, i + 1, Append(piece, s[i]))

Split(s, sep) == SplitFrom(s, sep, 1, << >>)

Digits == {"0", "1", "2", "3", "4", "5", "6", "7", "8", "9"}

DigitValue(c) ==
    CASE c = "0" -> 0 [] c = "1" -> 1 [] c = "2" -> 2 [] c = "3" -> 3
      [] c = "4" -> 4 [] c = "5" -> 5 [] c = "6" -> 6 [] c = "7" -> 7
      [] c = "8" -> 8 [] c = "9" -> 9

RECURSIVE StripLeft(_)
StripLeft(s) ==
    IF s # << >> /\ Head(s) = " " THEN StripLeft(Tail(s)) ELSE s

RECURSIVE StripRight(_)
StripRight(s) ==
    IF s # << >> /\ s[Len(s)] = " " THEN StripRight(SubSeq(s, 1, Len(s) - 1)) ELSE s

RECURSIVE DecimalValue(_)
DecimalValue(s) ==
    IF s = << >> THEN 0
    ELSE 10 * DecimalValue(SubSeq(s, 1, Len(s) - 1)) + DigitValue(s[Len(s)])

\* int(s) for a string: surrounding blanks are dropped, one sign is allowed,
\* and what is left must be a non-empty run of decimal digits; anything else
\* raises ValueError.  (Python also accepts single underscores between
\* digits; no option label holds an underscore.)
ParseInt(s) ==
    LET t == StripRight(StripLeft(s))
        signed == t # << >> /\ Head(t) \in {"+", "-"}
        d == IF signed THEN Tail(t) ELSE t
    IN  IF d # << >> /\ \A i \in DOMAIN d : d[i] \in Digits
        THEN [ok |-> TRUE,
              val |-> IF signed /\ Head(t) = "-" THEN 0 - DecimalValue(d)
                      ELSE DecimalValue(d)]
        ELSE [ok |-> FALSE, val |-> 0]

\* The text handed to int(): the last piece of the split at "(", cut at its
\* first ")".
NumericText(user_choice) ==
    LET after == Split(user_choice, "(")
    IN  Split(after[Len(after)], ")")[1]

NumericVal(user_choice) == ParseInt(NumericText(user_choice))

\* NumericVal of every label a baseline widget can return, computed once.
BaselineLabels ==
    UNION {RangeOf(baseline_obligations(key)) : key \in RangeOf(baseline_keys)}

NumericValOf == [label \in BaselineLabels |-> NumericVal(label)]

-----------------------------------------------------------------------------
(* One execution of the script.  g holds the module-level names: g.bound   *)
(* is the set of names assigned so far (a field outside g.bound holds a    *)
(* placeholder), g.rendered the widgets created so far, g.outcome how the  *)
(* execution ended: "Running" until it ends, the terminal reached by       *)
(* st.stop(), the exception that aborted it, or "Complete" when the last   *)
(* statement was executed.                                                 *)

Fresh ==
    [ bound |-> {}, rendered |-> {}, outcome |-> "Running",
      provider_type |-> "", provider_context_justification |-> 0,
      specialized_radio |-> "", developed_internally |-> "",
      substantial_mod |-> FALSE,
      prelim_score |-> 0, responses_step3 |-> << >>,
      baseline_score |-> 0, obligation_responses |-> << >>,
      systemic_score |-> 0, systemic_responses |-> << >>,
      systemic_classification |-> "", final_risk_decision |-> "",
      overall_score |-> 0, compliance_status |-> "",
      user_remediation |-> 0,
      report_data |-> << >>, model_name |-> 0, provider_name |-> 0,
      download_offered |-> FALSE ]

Bind(g, name, val) == [g EXCEPT ![name] = val, !.bound = @ \cup {name}]

Render(g, w) == [g EXCEPT !.rendered = @ \cup {w}]

\* name = st.radio(...) / st.text_area(...) / st.text_input(...)
Widget(ws, g, w, name) == Bind(Render(g, w), name, Value(ws, w))

\* st.stop(), and an exception nothing catches: both end the execution.
Stop(g, terminal) == [g EXCEPT !.outcome = terminal]
Raise(g, exception) == [g EXCEPT !.outcome = exception]

\* Lines 35-57.
ProviderContext(ws, g) ==
    Widget(ws, Widget(ws, g, "provider_type", "provider_type"),
           "provider_context_justification", "provider_context_justification")

\* Step1 with the st.stop() of line 79 left out.
Step1_NoStop(ws, g) == Widget(ws, g, "specialized_radio", "specialized_radio")

\* Lines 71-79.
Step1(ws, g) ==
    LET g1 == Widget(ws, g, "specialized_radio", "specialized_radio")
    IN  IF g1.specialized_radio = "Yes (Specialized/Narrow)"
        THEN Stop(g1, "OutOfScope")
        ELSE g1

\* SubstantialModLoop with substantial_mod assigned from every answer, so that
\* the last answer alone decides.
RECURSIVE SubstantialModLoop_LastWins(_, _, _)
SubstantialModLoop_LastWins(ws, g, i) ==
    IF i > Len(substantial_mod_keys) THEN g
    ELSE LET w == ModKey(substantial_mod_keys[i])
         IN  SubstantialModLoop_LastWins(
                 ws, Bind(Render(g, w), "substantial_mod", Value(ws, w) = "Yes"), i + 1)

\* Lines 110-113.
RECURSIVE SubstantialModLoop(_, _, _)
SubstantialModLoop(ws, g, i) ==
    IF i > Len(substantial_mod_keys) THEN g
    ELSE LET w == ModKey(substantial_mod_keys[i])
             answer == Value(ws, w)
             g1 == Render(g, w)
         IN  SubstantialModLoop(
                 ws,
                 IF answer = "Yes" THEN Bind(g1, "substantial_mod", TRUE) ELSE g1,
                 i + 1)

\* Step2 asking the modification questions whatever the origin of the model.
Step2_AlwaysAsks(ws, g) ==
    LET g1 == Widget(ws, g, "developed_internally", "developed_internally")
        g2 == SubstantialModLoop(ws, Bind(g1, "substantial_mod", FALSE), 1)
    IN  IF ~g2.substantial_mod THEN Stop(g2, "NotProvider") ELSE g2

\* Lines 87-125.
Step2(ws, g) ==
    LET g1 == Widget(ws, g, "developed_internally", "developed_internally")
    IN  IF g1.developed_internally = "Third Party"
        THEN LET g2 == SubstantialModLoop(ws, Bind(g1, "substantial_mod", FALSE), 1)
             IN  IF ~g2.substantial_mod THEN Stop(g2, "NotProvider") ELSE g2
        ELSE g1

\* param_scale_score_map with the top option worth 3 points.
param_scale_score_map_Three == ("< 1B" :> 0) @@ ("1B-10B" :> 1) @@ ("> 10B" :> 3)

param_scale_score_map == ("< 1B" :> 0) @@ ("1B-10B" :> 1) @@ ("> 10B" :> 2)

yes_partly_no_map == ("No" :> 0) @@ ("Partly" :> 1) @@ ("Yes" :> 2)

\* Lines 163-171.  A dictionary lookup of a missing key raises KeyError.
RECURSIVE PreliminaryLoop(_, _, _)
PreliminaryLoop(ws, g, i) ==
    IF i > Len(preliminary_keys) THEN g
    ELSE LET key == preliminary_keys[i]
             w == PrelimKey(key)
             user_choice == Value(ws, w)
             g1 == [Render(g, w) EXCEPT !.responses_step3 = @ @@ (key :> user_choice)]
             score_map == IF key = "param_scale" THEN param_scale_score_map
                          ELSE yes_partly_no_map
         IN  IF user_choice \notin DOMAIN score_map
             THEN Raise(g1, "KeyError")
             ELSE PreliminaryLoop(
                      ws, [g1 EXCEPT !.prelim_score = @ + score_map[user_choice]], i + 1)

\* Step3 with the threshold test written prelim_score <= 3.
Step3_AtMostThree(ws, g) ==
    LET g1 == PreliminaryLoop(
                  ws, Bind(Bind(g, "prelim_score", 0), "responses_step3", << >>), 1)
    IN  IF g1.outcome # "Running" THEN g1
        ELSE IF g1.prelim_score <= 3 THEN Stop(g1, "BelowThreshold")
        ELSE g1

\* Step3 without the st.stop() of line 181.
Step3_NoStop(ws, g) ==
    PreliminaryLoop(
        ws, Bind(Bind(g, "prelim_score", 0), "responses_step3", << >>), 1)

\* Lines 158-181.
Step3(ws, g) ==
    LET g1 == PreliminaryLoop(
                  ws, Bind(Bind(g, "prelim_score", 0), "responses_step3", << >>), 1)
    IN  IF g1.outcome # "Running" THEN g1
        ELSE IF g1.prelim_score < 3 THEN Stop(g1, "BelowThreshold")
        ELSE g1

\* Lines 220-226.  int() raises ValueError on a text that is no number.
RECURSIVE BaselineLoop(_, _, _)
BaselineLoop(ws, g, i) ==
    IF i > Len(baseline_keys) THEN g
    ELSE LET key == baseline_keys[i]
             w == ObligationKey(key)
             user_choice == Value(ws, w)
             g1 == [Render(g, w) EXCEPT !.obligation_responses = @ @@ (key :> user_choice)]
             numeric_val == NumericValOf[user_choice]
         IN  IF ~numeric_val.ok
             THEN Raise(g1, "ValueError")
             ELSE BaselineLoop(
                      ws, [g1 EXCEPT !.baseline_score = @ + numeric_val.val], i + 1)

\* Lines 218-226.
Step4(ws, g) ==
    BaselineLoop(ws, Bind(Bind(g, "baseline_score", 0), "obligation_responses", << >>), 1)

yes_no_map == ("No" :> 0) @@ ("Yes" :> 1)

\* Lines 266-269.
RECURSIVE SystemicLoop(_, _, _)
SystemicLoop(ws, g, i) ==
    IF i > Len(systemic_keys) THEN g
    ELSE LET key == systemic_keys[i]
             w == SysKey(key)
             user_choice == Value(ws, w)
             g1 == [Render(g, w) EXCEPT !.systemic_responses = @ @@ (key :> user_choice)]
         IN  IF user_choice \notin DOMAIN yes_no_map
             THEN Raise(g1, "KeyError")
             ELSE SystemicLoop(
                      ws, [g1 EXCEPT !.systemic_score = @ + yes_no_map[user_choice]], i + 1)

\* Lines 262-286.
Step5(ws, g) ==
    LET g1 == SystemicLoop(
                  ws, Bind(Bind(g, "systemic_score", 0), "systemic_responses", << >>), 1)
        g2 == Bind(g1, "systemic_classification", "No")
    IN  IF g1.outcome # "Running" THEN g1
        ELSE IF g2.systemic_responses["flop_threshold"] = "Yes"
                \/ g2.systemic_responses["sota_advancement"] = "Yes"
        THEN Bind(g2, "systemic_classification", "Yes")
        ELSE IF g2.systemic_score > 1
        THEN LET g3 == Widget(ws, g2, "borderline_sysrisk", "final_risk_decision")
             IN  IF g3.final_risk_decision = "Yes - High Impact/Systemic"
                 THEN Bind(g3, "systemic_classification", "Yes")
                 ELSE g3
        ELSE g2

\* Lines 295-321.
Step6(ws, g) ==
    LET g1 == Bind(g, "overall_score", g.prelim_score + g.baseline_score)
        g2 == Bind(g1, "compliance_status",
                   IF g1.overall_score >= 12
                   THEN "Compliant or Mostly Compliant with Baseline GPAI Obligations"
                   ELSE IF g1.overall_score >= 8
                   THEN "Provisionally Compliant (Some Gaps)"
                   ELSE "Non-Compliant / High Risk (Insufficient Baseline) - Remediation Needed")
    IN  IF g2.compliance_status \in
              {"Provisionally Compliant (Some Gaps)",
               "Non-Compliant / High Risk (Insufficient Baseline) - Remediation Needed"}
        THEN Widget(ws, g2, "user_remediation", "user_remediation")
        ELSE g2

Prefixed(prefix, dict) ==
    [k \in {prefix \o key : key \in DOMAIN dict} |->
        dict[CHOOSE key \in DOMAIN dict : prefix \o key = k]]

\* Lines 339-375.
Step7(ws, g) ==
    LET base == ("Provider Type (Recital 109)" :> g.provider_type)
                @@ ("Provider Justification" :> g.provider_context_justification)
                @@ ("Specialized Model Step1" :> g.specialized_radio)
                @@ ("Preliminary Score" :> g.prelim_score)
                @@ ("Baseline Score" :> g.baseline_score)
                @@ ("Systemic Risk? (Article 51)" :> g.systemic_classification)
                @@ ("Overall Compliance Status" :> g.compliance_status)
        merged == Prefixed("Step5_", g.systemic_responses)
                  @@ Prefixed("Step4_", g.obligation_responses)
                  @@ Prefixed("Step3_", g.responses_step3)
                  @@ base
        g1 == Widget(ws, Bind(g, "report_data", merged), "model_name", "model_name")
        g2 == [g1 EXCEPT !.report_data = ("Model Name" :> g1.model_name) @@ @]
        g3 == Widget(ws, g2, "provider_name", "provider_name")
        g4 == [g3 EXCEPT !.report_data = ("Provider Name" :> g3.provider_name) @@ @]
        g5 == Render(g4, "generate_button")
    IN  IF Value(ws, "generate_button")
        THEN [Render(g5, "download_button") EXCEPT !.download_offered = TRUE]
        ELSE g5

\* The sections of the script in the order of the file.
Section(n, ws, g) ==
    CASE n = 0 -> ProviderContext(ws, g)
      [] n = 1 -> Step1(ws, g)
      [] n = 2 -> Step2(ws, g)
      [] n = 3 -> Step3(ws, g)
      [] n = 4 -> Step4(ws, g)
      [] n = 5 -> Step5(ws, g)
      [] n = 6 -> Step6(ws, g)
      [] n = 7 -> Step7(ws, g)

\* ScriptFrom with st.stop() and an exception ending only the section they
\* occur in: the later sections are executed all the same.
RECURSIVE ScriptFrom_StopEndsSection(_, _, _)
ScriptFrom_StopEndsSection(n, ws, g) ==
    IF n > 7
    THEN IF g.outcome = "Running" THEN [g EXCEPT !.outcome = "Complete"] ELSE g
    ELSE LET h == Section(n, ws, [g EXCEPT !.outcome = "Running"])
         IN  ScriptFrom_StopEndsSection(
                 n + 1, ws,
                 IF g.outcome # "Running" THEN [h EXCEPT !.outcome = g.outcome] ELSE h)

\* The script from section n to its last statement; a section is reached
\* only while no st.stop() and no exception has ended the execution.
RECURSIVE ScriptFrom(_, _, _)
ScriptFrom(n, ws, g) ==
    IF g.outcome # "Running" THEN g
    ELSE IF n > 7 THEN [g EXCEPT !.outcome = "Complete"]
    ELSE ScriptFrom(n + 1, ws, Section(n, ws, g))

Script(ws) == ScriptFrom(0, ws, Fresh)

-----------------------------------------------------------------------------
(* The session.  Streamlit keeps the value of a widget between executions  *)
(* as long as every execution creates the widget; a widget an execution    *)
(* did not create is forgotten and starts from its first option again.  A  *)
(* button is pressed for one execution only.  The script reads a widget    *)
(* only by creating it, so an execution depends on the values of the       *)
(* widgets it creates and on nothing else.                                 *)

DefaultWidgets == [w \in WidgetKeys |-> 1]

Retained(ws, g) ==
    [w \in WidgetKeys |->
        IF w \in g.rendered /\ w # "generate_button" THEN ws[w] ELSE 1]

Init ==
    /\ run = Script(DefaultWidgets)
    /\ widgets = Retained(DefaultWidgets, run)

\* Interact with the names of the earlier execution still bound when the
\* script is executed again.
Interact_NamesSurvive(w, i) ==
    /\ w \in run.rendered \cap WidgetKeys
    /\ i \in DOMAIN OptionsOf[w]
    /\ i # widgets[w]
    /\ LET ws == [widgets EXCEPT ![w] = i]
       IN  /\ run' = ScriptFrom(0, ws, [run EXCEPT !.outcome = "Running",
                                                  !.rendered = {}])
           /\ widgets' = Retained(ws, run')

\* The user changes one widget shown on the page and the script is executed
\* again.
Interact(w, i) ==
    /\ w \in run.rendered \cap WidgetKeys
    /\ i \in DOMAIN OptionsOf[w]
    /\ i # widgets[w]
    /\ LET ws == [widgets EXCEPT ![w] = i]
       IN  /\ run' = Script(ws)
           /\ widgets' = Retained(ws, run')

Next == \E w \in WidgetKeys : \E i \in 1..4 : Interact(w, i)

Spec == Init /\ [][Next]_vars

-----------------------------------------------------------------------------
(* Vocabulary of the properties: the answers on the page, read from the    *)
(* widgets, and the points the questionnaire assigns to them.              *)

Answer(w) == Value(widgets, w)

Presented(w) == w \in run.rendered

Computed(name) == name \in run.bound

NotSpecialized == Answer("specialized_radio") = "No (Potentially General-Purpose)"

ThirdParty == NotSpecialized /\ Answer("developed_internally") = "Third Party"

Internal == NotSpecialized /\ Answer("developed_internally") = "Internally Developed"

AllModsNo == \A k \in RangeOf(substantial_mod_keys) : Answer(ModKey(k)) = "No"

PassesProviderGate == Internal \/ (ThirdParty /\ ~AllModsNo)

LaterWidgets ==
    {"developed_internally", "borderline_sysrisk", "user_remediation", "model_name",
     "provider_name", "generate_button", "download_button"}
    \cup ModWidgets \cup PrelimWidgets \cup ObligationWidgets \cup SysWidgets

ScoreNames ==
    {"prelim_score", "baseline_score", "systemic_score", "overall_score",
     "systemic_classification", "compliance_status", "substantial_mod", "report_data"}

\* C1: whenever the Step 1 answer is "Yes (Specialized/Narrow)" the execution
\* ends at Out-of-Scope, no later question is on the page, and no score, no
\* classification and no report has been computed.
C1_SpecializedEndsOutOfScope ==
    Answer("specialized_radio") = "Yes (Specialized/Narrow)" =>
        /\ run.outcome = "OutOfScope"
        /\ run.rendered \cap LaterWidgets = {}
        /\ run.bound \cap ScoreNames = {}
        /\ ~run.download_offered

\* C1 witness: Out-of-Scope reached by an execution the user started (the
\* provider type is no longer the initial one).
C1_Witness ==
    /\ run.outcome = "OutOfScope"
    /\ Answer("provider_type") = "SME or startup"
    /\ Computed("specialized_radio")

\* C2: with a third-party model the execution ends at Not-Provider exactly
\* when all four modification answers are "No"; one "Yes" makes
\* substantial_mod true and the preliminary questions are asked and scored.
C2_ThirdPartyNotProviderIffAllNo ==
    ThirdParty =>
        /\ ModWidgets \subseteq run.rendered
        /\ run.outcome = "NotProvider" <=> AllModsNo
        /\ Computed("substantial_mod") /\ (run.substantial_mod <=> ~AllModsNo)
        /\ ~AllModsNo => Computed("prelim_score") /\ PrelimWidgets \subseteq run.rendered
        /\ AllModsNo => ~Computed("prelim_score") /\ PrelimWidgets \cap run.rendered = {}

\* C2 witness: third party, a single "Yes" (the last question), and the
\* preliminary score computed.
C2_Witness ==
    /\ ThirdParty
    /\ \A k \in {"param_change", "purpose_change", "data_change"} : Answer(ModKey(k)) = "No"
    /\ Answer(ModKey("integration_change")) = "Yes"
    /\ run.substantial_mod
    /\ Computed("prelim_score")

\* C2 witness of the other side: third party, four "No", Not-Provider.
C2_WitnessNotProvider == ThirdParty /\ AllModsNo /\ run.outcome = "NotProvider"

\* C3: with an internally developed model the modification questions are not
\* on the page, the execution does not end at Not-Provider, and the
\* preliminary questions are asked and scored.
C3_InternalSkipsModCheck ==
    Internal =>
        /\ ModWidgets \cap run.rendered = {}
        /\ ~Computed("substantial_mod")
        /\ run.outcome # "NotProvider"
        /\ Computed("prelim_score") /\ PrelimWidgets \subseteq run.rendered

\* C3 witness: internally developed, preliminary score computed, after the
\* user had been on the third-party branch (an answer of Step 3 is not the
\* initial one).
C3_Witness ==
    /\ Internal
    /\ Computed("prelim_score")
    /\ Answer("prelim_broad_ability") = "Yes"

\* C4: every computed tally is in its range: preliminary and baseline score in
\* 0..8, overall score in 0..16.
C4_TalliesInRange ==
    /\ Computed("prelim_score") => run.prelim_score \in 0..8
    /\ Computed("baseline_score") => run.baseline_score \in 0..8
    /\ Computed("overall_score") => run.overall_score \in 0..16

\* C4 witness: the preliminary score at its maximum and a baseline tally that
\* has counted an answer worth 2.
C4_Witness ==
    /\ Computed("prelim_score") /\ run.prelim_score = 8
    /\ Computed("baseline_score") /\ run.baseline_score = 2

\* Points of the preliminary answers as the questionnaire states them.
ParamScalePoints(label) ==
    CASE label = "< 1B" -> 0 [] label = "1B-10B" -> 1 [] label = "> 10B" -> 2

NoPartlyYesPoints(label) ==
    CASE label = "No" -> 0 [] label = "Partly" -> 1 [] label = "Yes" -> 2

PreliminaryPoints ==
    ParamScalePoints(Answer("prelim_param_scale"))
    + NoPartlyYesPoints(Answer("prelim_training_scope"))
    + NoPartlyYesPoints(Answer("prelim_broad_ability"))
    + NoPartlyYesPoints(Answer("prelim_generative_cap"))

BeyondStep3 ==
    {"borderline_sysrisk", "user_remediation", "model_name", "provider_name",
     "generate_button", "download_button"} \cup ObligationWidgets \cup SysWidgets

\* C5: once both gates are passed, prelim_score is the sum of the points of
\* the four preliminary answers and the execution ends at Below-Threshold
\* exactly when that sum is under 3; at Below-Threshold no later question is
\* on the page and no later tally or classification has been computed.
C5_BelowThresholdIffUnderThree ==
    PassesProviderGate =>
        /\ Computed("prelim_score") /\ run.prelim_score = PreliminaryPoints
        /\ run.outcome = "BelowThreshold" <=> run.prelim_score < 3
        /\ run.outcome = "BelowThreshold" =>
              /\ run.rendered \cap BeyondStep3 = {}
              /\ run.bound \cap {"baseline_score", "systemic_score", "overall_score",
                                 "systemic_classification", "compliance_status",
                                 "report_data"} = {}

\* C5 witness: Below-Threshold with a preliminary score of exactly 2.
C5_Witness ==
    PassesProviderGate /\ run.outcome = "BelowThreshold" /\ run.prelim_score = 2

\* C5 witness of the other side: a preliminary score of exactly 3 goes on to
\* the baseline questions.
C5_WitnessAtThreshold ==
    /\ PassesProviderGate
    /\ run.prelim_score = 3
    /\ run.outcome # "BelowThreshold"
    /\ Presented("obligation_tech_doc")

\* The answers that, by the questionnaire, lead past the three gates: not
\* specialized, provider, and at least 3 preliminary points.
PassesAllGates == PassesProviderGate /\ PreliminaryPoints >= 3

\* Position (0, 1 or 2) of the selected option in its list of three.
Ordinal(w) == widgets[w] - 1

\* C6: for every selection of the four baseline questions, the value extracted
\* from each selected label is the ordinal of the option, no extraction fails,
\* and baseline_score is the sum of the four ordinals.
C6_ExtractionYieldsOrdinal ==
    PassesAllGates =>
        /\ run.outcome # "ValueError"
        /\ \A key \in RangeOf(baseline_keys) :
              /\ Presented(ObligationKey(key))
              /\ NumericVal(Answer(ObligationKey(key))) =
                    [ok |-> TRUE, val |-> Ordinal(ObligationKey(key))]
        /\ Computed("baseline_score")
        /\ run.baseline_score =
              Ordinal("obligation_tech_doc") + Ordinal("obligation_instructions")
              + Ordinal("obligation_copyright") + Ordinal("obligation_data_summary")

FlopOrSota ==
    Answer("sys_flop_threshold") = "Yes" \/ Answer("sys_sota_advancement") = "Yes"

YesCount(ws_keys) == Cardinality({w \in ws_keys : Answer(w) = "Yes"})

\* C7: every answer set that passes the three gates is given a systemic
\* classification, and with flop_threshold or sota_advancement "Yes" the
\* classification is "Yes" and the override question is not on the page.
C7_FlopOrSotaIsSystemic ==
    PassesAllGates =>
        /\ SysWidgets \subseteq run.rendered
        /\ Computed("systemic_classification")
        /\ FlopOrSota =>
              /\ run.systemic_classification = "Yes"
              /\ ~Presented("borderline_sysrisk")

\* C8: every answer set that passes the three gates is given a systemic
\* classification, and with flop_threshold and sota_advancement "No" and the
\* two other answers "Yes" the override question is on the page and its
\* answer is the classification.
C8_OverrideDecides ==
    PassesAllGates =>
        /\ SysWidgets \subseteq run.rendered
        /\ Computed("systemic_classification")
        /\ (~FlopOrSota /\ YesCount(SysWidgets) > 1) =>
              /\ Presented("borderline_sysrisk")
              /\ Answer("borderline_sysrisk") = "Yes - High Impact/Systemic"
                    => run.systemic_classification = "Yes"
              /\ Answer("borderline_sysrisk") = "No - Not Systemic"
                    => run.systemic_classification = "No"

\* C9: every answer set that passes the three gates is given a systemic score,
\* the number of "Yes" among the four systemic answers, within 0..4; with
\* flop_threshold and sota_advancement "No" and a score of at most 1 the
\* classification is "No" and the override question is not on the page.
C9_LowScoreNotSystemic ==
    PassesAllGates =>
        /\ SysWidgets \subseteq run.rendered
        /\ Computed("systemic_score")
        /\ run.systemic_score = YesCount(SysWidgets)
        /\ run.systemic_score \in 0..4
        /\ (~FlopOrSota /\ run.systemic_score <= 1) =>
              /\ Computed("systemic_classification")
              /\ run.systemic_classification = "No"
              /\ ~Presented("borderline_sysrisk")

\* C10: every answer set that passes the three gates is given an overall
\* score, the sum of the preliminary and the baseline score, and exactly one
\* compliance status: compliant from 12, provisional from 8 to 11,
\* non-compliant under 8.
C10_OverallScoreAndStatus ==
    PassesAllGates =>
        /\ Computed("overall_score") /\ Computed("compliance_status")
        /\ run.overall_score = run.prelim_score + run.baseline_score
        /\ run.compliance_status =
              "Compliant or Mostly Compliant with Baseline GPAI Obligations"
              <=> run.overall_score >= 12
        /\ run.compliance_status = "Provisionally Compliant (Some Gaps)"
              <=> (8 <= run.overall_score /\ run.overall_score < 12)
        /\ run.compliance_status =
              "Non-Compliant / High Risk (Insufficient Baseline) - Remediation Needed"
              <=> run.overall_score < 8

Terminals == {"OutOfScope", "NotProvider", "BelowThreshold", "Complete"}

\* C11: every execution ends without an error at one of the four terminals
\* Out-of-Scope, Not-Provider, Below-Threshold and Report Generation, and every
\* answer set that passes the three gates ends at Report Generation with the
\* report assembled.
C11_EndsAtATerminal ==
    /\ run.outcome \in Terminals
    /\ PassesAllGates => run.outcome = "Complete" /\ Computed("report_data")

\* The module-level name whose value the report holds under key k (lines
\* 339-362).
ReportSource(k) ==
    CASE k = "Provider Type (Recital 109)" -> "provider_type"
      [] k = "Provider Justification" -> "provider_context_justification"
      [] k = "Specialized Model Step1" -> "specialized_radio"
      [] k = "Preliminary Score" -> "prelim_score"
      [] k = "Baseline Score" -> "baseline_score"
      [] k = "Systemic Risk? (Article 51)" -> "systemic_classification"
      [] k = "Overall Compliance Status" -> "compliance_status"
      [] k = "Model Name" -> "model_name"
      [] k = "Provider Name" -> "provider_name"
      [] k \in DOMAIN Prefixed("Step3_", run.responses_step3) -> "responses_step3"
      [] k \in DOMAIN Prefixed("Step4_", run.obligation_responses) -> "obligation_responses"
      [] k \in DOMAIN Prefixed("Step5_", run.systemic_responses) -> "systemic_responses"
      [] OTHER -> "none"

Reported == {ReportSource(k) : k \in DOMAIN run.report_data}

\* What the report has to hold: the classifications, the tallies, the answers
\* of every step and the free texts; the answers of the modification
\* questions, the override answer and the remediation text when they were
\* asked for.
RequiredInReport ==
    {"specialized_radio", "developed_internally", "systemic_classification",
     "compliance_status", "prelim_score", "baseline_score", "systemic_score",
     "responses_step3", "obligation_responses", "systemic_responses",
     "model_name", "provider_name", "provider_context_justification"}
    \cup (IF ModWidgets \subseteq run.rendered THEN {"substantial_mod", "mod answers"} ELSE {})
    \cup (IF Presented("borderline_sysrisk") THEN {"final_risk_decision"} ELSE {})
    \cup (IF Presented("user_remediation") THEN {"user_remediation"} ELSE {})

\* C12: for every answer set that passes the three gates a report is assembled
\* and holds every classification, every tally, the answer to every question
\* asked and the free texts, each with the value the execution computed.
C12_ReportHoldsEverything ==
    PassesAllGates =>
        /\ Computed("report_data")
        /\ RequiredInReport \subseteq Reported
        /\ run.report_data["Preliminary Score"] = run.prelim_score
        /\ run.report_data["Baseline Score"] = run.baseline_score
        /\ run.report_data["Systemic Risk? (Article 51)"] = run.systemic_classification
        /\ run.report_data["Overall Compliance Status"] = run.compliance_status
        /\ run.report_data["Specialized Model Step1"] = run.specialized_radio

\* C13: an execution that ended at Out-of-Scope, Not-Provider or
\* Below-Threshold has assembled no report and offers no export: no report
\* record, no report button, no download.
C13_NoReportBeforeReportGeneration ==
    run.outcome \in {"OutOfScope", "NotProvider", "BelowThreshold"} =>
        /\ ~Computed("report_data")
        /\ run.report_data = << >>
        /\ ~Presented("generate_button")
        /\ ~Presented("download_button")
        /\ ~run.download_offered

\* C13 witness: an execution ended at Not-Provider, none of the report's names
\* bound.
C13_Witness ==
    /\ run.outcome = "NotProvider"
    /\ run.bound \cap {"report_data", "model_name", "provider_name"} = {}

\* The stage, the tallies and the classifications of an execution.
DerivedNames ==
    {"outcome", "bound", "substantial_mod", "prelim_score", "baseline_score",
     "systemic_score", "overall_score", "systemic_classification",
     "compliance_status", "responses_step3", "obligation_responses",
     "systemic_responses"}

\* C15: after any sequence of answers and revisions the stage, the names
\* computed, the tallies and the classifications are those of an execution of
\* the script from scratch on the answers now on the page.
C15_EqualsEvaluationFromScratch ==
    LET scratch == Script(widgets)
    IN  \A name \in DerivedNames : run[name] = scratch[name]

\* C15 witness: the modification questions were revised to all "No" after an
\* execution that had computed prelim_score (the page starts at "Internally
\* Developed"); the execution ends at Not-Provider and nothing of the earlier
\* preliminary tally is left.
C15_Witness ==
    /\ ThirdParty /\ AllModsNo
    /\ run.outcome = "NotProvider"
    /\ ~Computed("prelim_score")
    /\ run.prelim_score = 0
    /\ run.responses_step3 = << >>

\* The questions of Steps 1 to 5.
Questions ==
    {"specialized_radio", "developed_internally", "borderline_sysrisk"}
    \cup ModWidgets \cup PrelimWidgets \cup ObligationWidgets \cup SysWidgets

\* C16 as stated: at every point exactly one question is on the page to be
\* answered.
C16_ExactlyOneQuestionCurrent ==
    Cardinality(run.rendered \cap Questions) = 1

\* C16: a question is on the page only when the answers to the questions of
\* the earlier steps pass every earlier gate, all questions of the steps
\* reached are on the page together, and only a question on the page holds an
\* answer other than its preselected first option.
C16_QuestionsFollowGates ==
    /\ Presented("specialized_radio")
    /\ Presented("developed_internally") <=> NotSpecialized
    /\ \A w \in ModWidgets : Presented(w) <=> ThirdParty
    /\ \A w \in PrelimWidgets : Presented(w) <=> PassesProviderGate
    /\ \A w \in ObligationWidgets \cup SysWidgets \cup {"borderline_sysrisk"} :
           Presented(w) => PassesAllGates
    /\ \A w \in Questions : widgets[w] # 1 => Presented(w)

\* C16 witness: both the provider gate and the threshold gate are passed with
\* revised answers, and the questions of Steps 1 to 3 are on the page together
\* with the first baseline question.
C16_Witness ==
    /\ ThirdParty /\ ~AllModsNo
    /\ PreliminaryPoints >= 3
    /\ ({"specialized_radio", "developed_internally", "obligation_tech_doc"}
            \cup ModWidgets \cup PrelimWidgets) \subseteq run.rendered

\* C17: for every answer set that passes the three gates the remediation text
\* is asked for exactly when overall_score is under 12 (provisional or
\* non-compliant status), and with a score of 12 or more the execution still
\* ends at Report Generation with the report assembled.
C17_RemediationIffUnderTwelve ==
    PassesAllGates =>
        /\ Computed("overall_score") /\ Computed("compliance_status")
        /\ Presented("user_remediation") <=> run.overall_score < 12
        /\ Computed("user_remediation") <=> run.overall_score < 12
        /\ run.overall_score >= 12 =>
              run.outcome = "Complete" /\ Computed("report_data")

\* The answers on the page with the override radio set to option i.
WithOverride(i) == [widgets EXCEPT !["borderline_sysrisk"] = i]

\* C18: for every answer set that passes the three gates with flop_threshold
\* and sota_advancement "No" and at most one systemic "Yes", the execution
\* classifies the model as not systemic whatever the override radio holds from
\* before, and does not read the override radio.
C18_StaleOverrideHasNoEffect ==
    PassesAllGates =>
        /\ Computed("systemic_classification")
        /\ (~FlopOrSota /\ YesCount(SysWidgets) <= 1) =>
              \A i \in DOMAIN OptionsOf["borderline_sysrisk"] :
                  /\ Script(WithOverride(i)).systemic_classification = "No"
                  /\ "final_risk_decision" \notin Script(WithOverride(i)).bound

\* Widget values that agree with the ones on the page in everything but the
\* provider type and the context justification.
ContextVariants ==
    {[widgets EXCEPT !["provider_type"] = p,
                     !["provider_context_justification"] = t] :
        p \in DOMAIN OptionsOf["provider_type"],
        t \in DOMAIN OptionsOf["provider_context_justification"]}

\* Widget values that agree with the ones on the page in the answers of
\* Steps 1 to 4: provider type, context justification, systemic answers and
\* override answer are arbitrary.
SameUpToStep4 ==
    {[w \in WidgetKeys |->
         IF w = "provider_type" THEN p
         ELSE IF w = "provider_context_justification" THEN t
         ELSE IF w = "borderline_sysrisk" THEN o
         ELSE IF w \in SysWidgets THEN sys[w]
         ELSE widgets[w]] :
        p \in DOMAIN OptionsOf["provider_type"],
        t \in DOMAIN OptionsOf["provider_context_justification"],
        o \in DOMAIN OptionsOf["borderline_sysrisk"],
        sys \in [SysWidgets -> DOMAIN systemic_options]}

\* C19: the gate at which an execution ends is the same for every provider
\* type and context justification, and every answer set that passes the three
\* gates gets an overall score and a compliance status that are the same for
\* every provider type, context justification, systemic answer and override
\* answer.
C19_ScoreIndependentOfContextAndSystemic ==
    /\ \A ws \in ContextVariants : Script(ws).outcome = run.outcome
    /\ PassesAllGates =>
          /\ Computed("overall_score") /\ Computed("compliance_status")
          /\ \A ws \in SameUpToStep4 :
                /\ Script(ws).overall_score = run.overall_score
                /\ Script(ws).compliance_status = run.compliance_status
====
